---- MODULE Spec2Model ----
(***************************************************************************)
(* Skeleton-based connectivity inference                                   *)
(* (src/src/ocr_approach/skeleton_path_mapping.py).                        *)
(*                                                                         *)
(* A skeleton is a boolean pixel array; build_skeleton_graph compresses it *)
(* into a graph of endpoint/junction vertices joined by traced pixel       *)
(* chains; snap_components_to_nodes maps components to vertices;           *)
(* find_all_component_paths emits one pipe per admissible component pair;  *)
(* associate_labels_to_pipes annotates the pipes from OCR items.           *)
(*                                                                         *)
(* Numbers.  Pixel coordinates are integers.  Every step of a traced chain *)
(* joins two 8-neighbours, so every edge length is r + s*sqrt(2) with      *)
(* naturals r, s; a length is the record [r, s] and is compared exactly.   *)
(* Distances between a pixel and a component or an OCR centroid are        *)
(* compared through their squares.                                         *)
(***************************************************************************)
EXTENDS Integers, Sequences, FiniteSets, TLC

VARIABLES pc, skel, G, point_to_node, components, max_snap, comp_map,
          max_path_length, pipes, ocr_items, proximity, pnid_out

vars == <<pc, skel, G, point_to_node, components, max_snap, comp_map,
          max_path_length, pipes, ocr_items, proximity, pnid_out>>

----------------------------------------------------------------------------
(* Bounds of the model.                                                    *)

GridW == 3
GridH == 3
MaxPixels == 5
MaxComps == 3
MaxOcr == 4

----------------------------------------------------------------------------
(* Small helpers.                                                          *)

Abs(n) == IF n < 0 THEN -n ELSE n

Range(f) == {f[i] : i \in DOMAIN f}

\* Tuple order of Python on (x, y) points: x first, then y.
PointLess(p, q) == p[1] < q[1] \/ (p[1] = q[1] /\ p[2] < q[2])

\* sorted(S) for a set of points, as a 1-based sequence.
RECURSIVE sorted(_)
sorted(S) ==
    IF S = {} THEN <<>>
    ELSE LET m == CHOOSE p \in S : \A q \in S \ {p} : PointLess(p, q)
         IN  <<m>> \o sorted(S \ {m})

----------------------------------------------------------------------------
(* Lengths r + s*sqrt(2).                                                  *)

LenZero == [r |-> 0, s |-> 0]

LenAdd(a, b) == [r |-> a.r + b.r, s |-> a.s + b.s]

\* p < q*sqrt(2) for integers p, q.
LtRoot2(p, q) ==
    IF q >= 0
    THEN p < 0 \/ p * p < 2 * q * q
    ELSE p < 0 /\ p * p > 2 * q * q

\* a < b as real numbers.
LenLess(a, b) == LtRoot2(a.r - b.r, b.s - a.s)

\* a > n and a <= n for an integer n.
LenGtInt(a, n) == LtRoot2(n - a.r, a.s)
LenLeInt(a, n) == ~LenGtInt(a, n)

\* Mutant: the length counts pixels, a diagonal step counting 1.
hypot_pixel_count(dx, dy) ==
    [r |-> IF Abs(dx) > Abs(dy) THEN Abs(dx) ELSE Abs(dy), s |-> 0]

\* math.hypot(dx, dy) of one step between 8-neighbours (or of no step).
hypot(dx, dy) ==
    IF dx # 0 /\ dy # 0
    THEN [r |-> 0, s |-> Abs(dx)]
    ELSE [r |-> Abs(dx) + Abs(dy), s |-> 0]

----------------------------------------------------------------------------
(* build_skeleton_graph                                                    *)

\* (dx, dy) in the order get_neighbor_coords yields them: dy outer, dx inner.
NeighborOffsets ==
    << <<-1, -1>>, <<0, -1>>, <<1, -1>>,
       <<-1, 0>>,             <<1, 0>>,
       <<-1, 1>>,  <<0, 1>>,  <<1, 1>> >>

get_neighbor_coords(pt) ==
    [i \in 1..8 |-> <<pt[1] + NeighborOffsets[i][1], pt[2] + NeighborOffsets[i][2]>>]

\* np.nonzero(skel): the foreground pixels as (x, y).
points(sk) == sk.px

\* Mutant: the degree counts the four orthogonal neighbours only.
degrees_orthogonal(pts) ==
    [pt \in pts |->
        Cardinality({i \in 1..8 : /\ get_neighbor_coords(pt)[i] \in pts
                                  /\ (NeighborOffsets[i][1] = 0 \/ NeighborOffsets[i][2] = 0)})]

degrees(pts) ==
    [pt \in pts |-> Cardinality({i \in 1..8 : get_neighbor_coords(pt)[i] \in pts})]

\* Mutant: endpoints are not selected.
node_points_junctions_only(pts) ==
    LET deg == degrees(pts)
    IN  {pt \in pts : deg[pt] > 2}

\* Mutant: isolated pixels (degree 0) are not selected.
node_points_skip_isolated(pts) ==
    LET deg == degrees(pts)
    IN  {pt \in pts : deg[pt] # 2 /\ deg[pt] # 0}

\* Mutant: a skeleton without a pixel of degree != 2 gets its first pixel as a
\* vertex.
node_points_seed_loop(pts) ==
    LET deg == degrees(pts)
        nps == {pt \in pts : deg[pt] # 2}
    IN  IF nps = {} /\ pts # {}
        THEN {CHOOSE p \in pts : \A q \in pts \ {p} : PointLess(p, q)}
        ELSE nps

node_points(pts) ==
    LET deg == degrees(pts)
    IN  {pt \in pts : deg[pt] # 2}

\* enumerate(sorted(node_points)): vertex ids are the 0-based ranks of the vertex
\* pixels in sorted order.
NodesOf(order) == [idx \in 0..(Len(order) - 1) |-> order[idx + 1]]

\* Mutant: point_to_node numbers the vertex pixels from 1.
PointToNodeFromOne(order) ==
    [pt \in Range(order) |-> CHOOSE i \in 1..Len(order) : order[i] = pt]

PointToNode(order) ==
    [pt \in Range(order) |-> (CHOOSE i \in 1..Len(order) : order[i] = pt) - 1]

\* Mutant: the safety limit is one iteration.
ClosureOneStep(sk) ==
    LET pts   == points(sk)
        nps   == node_points(pts)
        order == sorted(nps)
    IN  [points |-> pts, node_points |-> nps, order |-> order,
         point_to_node |-> PointToNode(order), max_steps |-> 1]

\* Mutant: the safety limit is twice skel.size.
ClosureDoubleLimit(sk) ==
    LET pts   == points(sk)
        nps   == node_points(pts)
        order == sorted(nps)
    IN  [points |-> pts, node_points |-> nps, order |-> order,
         point_to_node |-> PointToNode(order), max_steps |-> 2 * sk.w * sk.h]

\* What the nested walk_path closes over: the foreground pixels, the vertex
\* pixels, their ids and skel.size.
Closure(sk) ==
    LET pts   == points(sk)
        nps   == node_points(pts)
        order == sorted(nps)
    IN  [points |-> pts, node_points |-> nps, order |-> order,
         point_to_node |-> PointToNode(order), max_steps |-> sk.w * sk.h]

NoWalk == [node |-> -1, path |-> <<>>]

\* Mutant: the last such neighbour in offset order.
NextFoundLast(pts, prev, curr) ==
    LET nbs  == get_neighbor_coords(curr)
        cand == {i \in 1..8 : nbs[i] # prev /\ nbs[i] \in pts}
    IN  IF cand = {} THEN 0
        ELSE CHOOSE i \in cand : \A j \in cand : i >= j

\* The first neighbour of curr, in offset order, that is foreground and not prev;
\* 0 when there is none.
NextFound(pts, prev, curr) ==
    LET nbs  == get_neighbor_coords(curr)
        cand == {i \in 1..8 : nbs[i] # prev /\ nbs[i] \in pts}
    IN  IF cand = {} THEN 0
        ELSE CHOOSE i \in cand : \A j \in cand : i <= j

\* The state of walk_path(start, neighbor) before the while loop.
WalkStart(start, neighbor) ==
    [done |-> FALSE, node |-> -1, path |-> <<start, neighbor>>,
     prev |-> start, curr |-> neighbor, steps |-> 0]

\* One iteration of the while loop of walk_path on the loop's state w: w.done
\* when the iteration returns, with (w.node, w.path) the value returned.
WalkStep(c, start, w) ==
    IF w.curr \in c.node_points /\ w.curr # start
    THEN [w EXCEPT !.steps = w.steps + 1, !.done = TRUE,
                   !.node = c.point_to_node[w.curr]]
    ELSE LET k == NextFound(c.points, w.prev, w.curr)
         IN  IF k = 0
             THEN [w EXCEPT !.steps = w.steps + 1, !.done = TRUE, !.node = -1,
                            !.path = <<>>]
             ELSE LET nxt == get_neighbor_coords(w.curr)[k]
                  IN  [w EXCEPT !.steps = w.steps + 1, !.prev = w.curr, !.curr = nxt,
                                !.path = Append(w.path, nxt)]

\* At most n further iterations of the while loop from the state w.  The n
\* iterations are run as two halves; the CHOOSE over a one-element set only
\* names the state the first half ends in, so that it is computed once.
RECURSIVE WalkLoop(_, _, _, _)
WalkLoop(c, start, w, n) ==
    IF w.done \/ n = 0 THEN w
    ELSE IF n = 1 THEN WalkStep(c, start, w)
    ELSE CHOOSE r \in {WalkLoop(c, start, half, n - (n \div 2)) :
                         half \in {WalkLoop(c, start, w, n \div 2)}} : TRUE

\* Mutant: the path does not record the start pixel.
walk_path_without_start(c, start, neighbor) ==
    LET w == WalkLoop(c, start,
                      [WalkStart(start, neighbor) EXCEPT !.path = <<neighbor>>],
                      c.max_steps)
    IN  IF w.done THEN [node |-> w.node, path |-> w.path] ELSE NoWalk

\* walk_path(start, neighbor): the loop runs while steps < max_steps and the
\* function returns (-1, []) when the loop runs out.
walk_path(c, start, neighbor) ==
    LET w == WalkLoop(c, start, WalkStart(start, neighbor), c.max_steps)
    IN  IF w.done THEN [node |-> w.node, path |-> w.path] ELSE NoWalk

\* The length loop over the steps lo..hi-1 of the path: the sum of hypot over
\* consecutive points (summed as two halves).
RECURSIVE PathLength(_, _, _)
PathLength(path, lo, hi) ==
    IF hi <= lo THEN LenZero
    ELSE IF hi = lo + 1
         THEN hypot(path[hi][1] - path[lo][1], path[hi][2] - path[lo][2])
    ELSE LET mid == (lo + hi) \div 2
         IN  LenAdd(PathLength(path, lo, mid), PathLength(path, mid, hi))

\* Mutant: the test sees only an edge added in the same direction.
has_edge_directed(edges, u, v) ==
    \E k \in 1..Len(edges) : edges[k].u = u /\ edges[k].v = v

\* G.has_edge(u, v) on an undirected graph.
has_edge(edges, u, v) ==
    \E k \in 1..Len(edges) :
        \/ edges[k].u = u /\ edges[k].v = v
        \/ edges[k].u = v /\ edges[k].v = u

\* Mutant: without the has_edge test add_edge overwrites the length and the
\* pixels of the edge that joins the pair already.
TryEdgeLastWins(c, edges, pt, i) ==
    LET nb == get_neighbor_coords(pt)[i]
    IN  IF nb \notin c.points THEN edges
        ELSE CHOOSE r \in
                 {LET u == c.point_to_node[pt]
                      v == wk.node
                      e == [u |-> u, v |-> v,
                            length |-> PathLength(wk.path, 1, Len(wk.path)),
                            pixels |-> wk.path]
                  IN  IF v = -1 THEN edges
                      ELSE IF u = v THEN edges
                      ELSE IF has_edge(edges, u, v)
                           THEN [k \in 1..Len(edges) |->
                                    IF {edges[k].u, edges[k].v} = {u, v}
                                    THEN [e EXCEPT !.u = edges[k].u, !.v = edges[k].v]
                                    ELSE edges[k]]
                      ELSE Append(edges, e) :
                  wk \in {walk_path(c, pt, nb)}} : TRUE

\* One iteration of the inner loop: the walk from pt towards its i-th neighbour.
\* `edges` is the list of edges added so far, in the order of the add_edge calls.
TryEdge(c, edges, pt, i) ==
    LET nb == get_neighbor_coords(pt)[i]
    IN  IF nb \notin c.points THEN edges
        ELSE CHOOSE r \in
                 {LET u == c.point_to_node[pt]
                      v == wk.node
                  IN  IF v = -1 THEN edges
                      ELSE IF u = v THEN edges
                      ELSE IF has_edge(edges, u, v) THEN edges
                      ELSE Append(edges, [u |-> u, v |-> v,
                                          length |-> PathLength(wk.path, 1, Len(wk.path)),
                                          pixels |-> wk.path]) :
                  wk \in {walk_path(c, pt, nb)}} : TRUE

\* The inner loop over the eight neighbours of pt, from the i-th on; `next` is
\* the edge list after the i-th iteration.
RECURSIVE TraceNeighbors(_, _, _, _)
TraceNeighbors(c, edges, pt, i) ==
    IF i > 8 THEN edges
    ELSE CHOOSE r \in {TraceNeighbors(c, next, pt, i + 1) :
                         next \in {TryEdge(c, edges, pt, i)}} : TRUE

\* The outer loop over sorted(node_points), from the k-th vertex pixel on.
RECURSIVE TraceEdges(_, _, _)
TraceEdges(c, edges, k) ==
    IF k > Len(c.order) THEN edges
    ELSE CHOOSE r \in {TraceEdges(c, next, k + 1) :
                         next \in {TraceNeighbors(c, edges, c.order[k], 1)}} : TRUE

\* build_skeleton_graph(skel): the vertices, the traced edges and point_to_node;
\* c names what the loops share, computed once.
build_skeleton_graph(sk) ==
    CHOOSE r \in {[nodes |-> NodesOf(c.order),
                   edges |-> TraceEdges(c, <<>>, 1),
                   point_to_node |-> c.point_to_node] : c \in {Closure(sk)}} : TRUE

----------------------------------------------------------------------------
(* snap_components_to_nodes                                                *)

\* Python's None where a string is expected.
None == "<None>"

\* dict.get(key, default) on a record whose domain holds the keys present.
Get(d, key, default) == IF key \in DOMAIN d THEN d[key] ELSE default

\* comp.get("id") or comp.get("label")
comp_id_of(comp) ==
    LET a == Get(comp, "id", None)
    IN  IF a # None /\ a # "" THEN a ELSE Get(comp, "label", None)

\* The square of math.hypot(pos[1] - cx, pos[2] - cy).
Dist2(pos, cx, cy) == (pos[1] - cx) * (pos[1] - cx) + (pos[2] - cy) * (pos[2] - cy)

\* Mutant: d <= best_dist, so the last of several nearest vertices wins.
RECURSIVE ScanNodesLast(_, _, _, _, _, _)
ScanNodesLast(nodes, cx, cy, n, best, best_d2) ==
    IF n \notin DOMAIN nodes THEN [best |-> best, best_d2 |-> best_d2]
    ELSE LET d2 == Dist2(nodes[n], cx, cy)
         IN  IF best = -1 \/ d2 <= best_d2
             THEN ScanNodesLast(nodes, cx, cy, n + 1, n, d2)
             ELSE ScanNodesLast(nodes, cx, cy, n + 1, best, best_d2)

\* The scan over node_items from vertex n on; best = -1 stands for None, with
\* best_dist = inf.
RECURSIVE ScanNodes(_, _, _, _, _, _)
ScanNodes(nodes, cx, cy, n, best, best_d2) ==
    IF n \notin DOMAIN nodes THEN [best |-> best, best_d2 |-> best_d2]
    ELSE LET d2 == Dist2(nodes[n], cx, cy)
         IN  IF best = -1 \/ d2 < best_d2
             THEN ScanNodes(nodes, cx, cy, n + 1, n, d2)
             ELSE ScanNodes(nodes, cx, cy, n + 1, best, best_d2)

\* mapping[key] = value on an insertion-ordered dict, kept as a sequence of entries.
DictSet(m, key, value) ==
    IF \E i \in 1..Len(m) : m[i].id = key
    THEN [i \in 1..Len(m) |-> IF m[i].id = key THEN [id |-> key, node |-> value] ELSE m[i]]
    ELSE Append(m, [id |-> key, node |-> value])

\* Mutant: the nearest vertex is taken whatever its distance.
SnapOneAnyDistance(mapping, comp, nodes, maxSnap) ==
    LET comp_id == comp_id_of(comp)
    IN  IF comp_id = None THEN mapping
        ELSE LET sc == ScanNodes(nodes, Get(comp, "x", 0), Get(comp, "y", 0), 0, -1, 0)
             IN  IF sc.best # -1 THEN DictSet(mapping, comp_id, sc.best) ELSE mapping

\* Mutant: the tolerance test is inverted.
SnapOneInvertedTest(mapping, comp, nodes, maxSnap) ==
    LET comp_id == comp_id_of(comp)
    IN  IF comp_id = None THEN mapping
        ELSE LET sc == ScanNodes(nodes, Get(comp, "x", 0), Get(comp, "y", 0), 0, -1, 0)
             IN  IF sc.best # -1 /\ sc.best_d2 >= maxSnap * maxSnap
                 THEN DictSet(mapping, comp_id, sc.best)
                 ELSE mapping

\* The body of the loop over components (max_snap >= 0, so best_dist <= max_snap
\* is decided on the squares).
SnapOne(mapping, comp, nodes, maxSnap) ==
    LET comp_id == comp_id_of(comp)
    IN  IF comp_id = None THEN mapping
        ELSE LET cx == Get(comp, "x", 0)
                 cy == Get(comp, "y", 0)
                 sc == ScanNodes(nodes, cx, cy, 0, -1, 0)
             IN  IF sc.best # -1 /\ sc.best_d2 <= maxSnap * maxSnap
                 THEN DictSet(mapping, comp_id, sc.best)
                 ELSE mapping

RECURSIVE SnapLoop(_, _, _, _, _)
SnapLoop(comps, nodes, maxSnap, i, mapping) ==
    IF i > Len(comps) THEN mapping
    ELSE SnapLoop(comps, nodes, maxSnap, i + 1, SnapOne(mapping, comps[i], nodes, maxSnap))

snap_components_to_nodes(comps, graph, maxSnap) ==
    SnapLoop(comps, graph.nodes, maxSnap, 1, <<>>)

----------------------------------------------------------------------------
(* find_all_component_paths                                                *)

\* The noise threshold of the emission test, in pixels.
MinPathLength == 5

\* Mutant: the attributes are found only in the direction the edge was added;
\* the other direction reads the defaults of edge_data.get.
get_edge_data_stored_direction(edges, u, v) ==
    IF \E e \in Range(edges) : e.u = u /\ e.v = v
    THEN CHOOSE e \in Range(edges) : e.u = u /\ e.v = v
    ELSE [u |-> u, v |-> v, length |-> LenZero, pixels |-> <<>>]

\* G.get_edge_data(u, v)
get_edge_data(edges, u, v) ==
    CHOOSE e \in Range(edges) : (e.u = u /\ e.v = v) \/ (e.u = v /\ e.v = u)

MinLen(S) == CHOOSE a \in S : \A b \in S : ~LenLess(b, a)

\* One round of relaxation of the distances from the source; dist is defined on
\* the vertices reached so far.
Relax(graph, dist) ==
    LET via(v) ==
            {LenAdd(dist[e.u], e.length) :
                e \in {f \in Range(graph.edges) : f.v = v /\ f.u \in DOMAIN dist}}
            \cup
            {LenAdd(dist[e.v], e.length) :
                e \in {f \in Range(graph.edges) : f.u = v /\ f.v \in DOMAIN dist}}
            \cup
            (IF v \in DOMAIN dist THEN {dist[v]} ELSE {})
        reached == {v \in DOMAIN graph.nodes : via(v) # {}}
    IN  [v \in reached |-> MinLen(via(v))]

RECURSIVE RelaxRounds(_, _, _)
RelaxRounds(graph, dist, k) ==
    IF k = 0 THEN dist
    ELSE LET next == Relax(graph, dist)
         IN  IF next = dist THEN dist ELSE RelaxRounds(graph, next, k - 1)

\* The weighted distance from source to every vertex it reaches.
Distances(graph, source) ==
    RelaxRounds(graph, [v \in {source} |-> LenZero], Cardinality(DOMAIN graph.nodes))

\* The paths from the source to t along which every edge is tight.
RECURSIVE TightPaths(_, _, _, _)
TightPaths(graph, dist, source, t) ==
    IF t = source THEN {<<source>>}
    ELSE UNION {
            {Append(q, t) : q \in TightPaths(graph, dist, source, IF e.u = t THEN e.v ELSE e.u)} :
                e \in {f \in Range(graph.edges) :
                         /\ t \in {f.u, f.v}
                         /\ LET o == IF f.u = t THEN f.v ELSE f.u
                            IN  o \in DOMAIN dist /\ LenAdd(dist[o], f.length) = dist[t]} }

\* The simple paths of the graph from s to t that continue the path q (which
\* ends at its last vertex), as vertex sequences.
RECURSIVE SimplePathsFrom(_, _, _)
SimplePathsFrom(graph, q, t) ==
    LET last == q[Len(q)]
    IN  IF last = t THEN {q}
        ELSE UNION {SimplePathsFrom(graph, Append(q, o), t) :
                       o \in {n \in DOMAIN graph.nodes :
                                 n \notin Range(q) /\ has_edge(graph.edges, last, n)}}

SimplePaths(graph, s, t) == SimplePathsFrom(graph, <<s>>, t)

\* Mutant: no weight is given, so a path of fewest edges is returned.
shortest_path_fewest_edges(graph, source, target) ==
    LET P == SimplePaths(graph, source, target)
    IN  {q \in P : \A q2 \in P : Len(q) <= Len(q2)}

\* nx.shortest_path(G, source, target, weight="length"): a path of minimum total
\* length; which one among several is the library's choice, so the value is the
\* set of them, empty for NetworkXNoPath.
shortest_path(graph, source, target) ==
    LET dist == Distances(graph, source)
    IN  IF target \notin DOMAIN dist THEN {}
        ELSE TightPaths(graph, dist, source, target)

\* Mutant: total_length is assigned each edge's length instead of accumulating.
RECURSIVE AlongPathLastEdge(_, _, _, _, _)
AlongPathLastEdge(graph, path_nodes, k, total_length, path_pixels) ==
    IF k >= Len(path_nodes)
    THEN [total_length |-> total_length, path_pixels |-> path_pixels]
    ELSE LET edge_data  == get_edge_data(graph.edges, path_nodes[k], path_nodes[k + 1])
             seg_pixels == edge_data.pixels
             joined     ==
                 IF seg_pixels = <<>> THEN path_pixels
                 ELSE IF path_pixels # <<>> /\ path_pixels[Len(path_pixels)] = seg_pixels[1]
                      THEN path_pixels \o Tail(seg_pixels)
                      ELSE path_pixels \o seg_pixels
         IN  AlongPathLastEdge(graph, path_nodes, k + 1, edge_data.length, joined)

\* The loop over the edges of path_nodes from its k-th vertex on: the running
\* total_length and path_pixels.
RECURSIVE AlongPath(_, _, _, _, _)
AlongPath(graph, path_nodes, k, total_length, path_pixels) ==
    IF k >= Len(path_nodes)
    THEN [total_length |-> total_length, path_pixels |-> path_pixels]
    ELSE LET edge_data  == get_edge_data(graph.edges, path_nodes[k], path_nodes[k + 1])
             seg_pixels == edge_data.pixels
             joined     ==
                 IF seg_pixels = <<>> THEN path_pixels
                 ELSE IF path_pixels # <<>> /\ path_pixels[Len(path_pixels)] = seg_pixels[1]
                      THEN path_pixels \o Tail(seg_pixels)
                      ELSE path_pixels \o seg_pixels
         IN  AlongPath(graph, path_nodes, k + 1,
                       LenAdd(total_length, edge_data.length), joined)

\* Mutant: the upper limit is not tested.
AdmissibleNoLimit(total_length, maxPathLength) ==
    LenGtInt(total_length, MinPathLength)

\* Mutant: the noise threshold is tested the wrong way round.
AdmissibleBelowThreshold(total_length, maxPathLength) ==
    LenLeInt(total_length, maxPathLength) /\ ~LenGtInt(total_length, MinPathLength)

\* The emission test on total_length.
Admissible(total_length, maxPathLength) ==
    LenLeInt(total_length, maxPathLength) /\ LenGtInt(total_length, MinPathLength)

\* Mutant: the pipe is created with an empty description.
GeomTextEmpty == ""

\* The description a pipe is created with: the fixed text and the length it
\* formats; `ocr` is what the label annotator appends.
GeomText == "Geometric path via skeleton, length {total_length:.1f}px"

\* The body of the pair loop once the path is resolved: <<pipe>>, or <<>> when
\* the pair is skipped.
PipeOf(graph, id_i, id_j, path_nodes, maxPathLength) ==
    LET a       == AlongPath(graph, path_nodes, 1, LenZero, <<>>)
        mid_idx == IF a.path_pixels # <<>> THEN Len(a.path_pixels) \div 2 ELSE 0
        m       == IF a.path_pixels # <<>> THEN a.path_pixels[mid_idx + 1] ELSE <<0, 0>>
    IN  IF Admissible(a.total_length, maxPathLength)
        THEN << [label |-> "",
                 source |-> id_i,
                 target |-> id_j,
                 description |-> [text |-> GeomText, total_length |-> a.total_length,
                                  ocr |-> ""],
                 x |-> m[1],
                 y |-> m[2],
                 path_length |-> a.total_length,
                 path_pixels |-> a.path_pixels] >>
        ELSE <<>>

\* The pipes one pair (i, j) can contribute: one outcome per admissible result
\* of shortest_path, <<>> alone when there is no path.
PairOutcomes(graph, comp_items, i, j, maxPathLength) ==
    LET paths == shortest_path(graph, comp_items[i].node, comp_items[j].node)
    IN  IF paths = {} THEN {<<>>}
        ELSE {PipeOf(graph, comp_items[i].id, comp_items[j].id, q, maxPathLength) : q \in paths}

\* Mutant: for j in range(len(comp_items)).
JRangeAll(comp_items, i) == 1..Len(comp_items)

\* for j in range(i + 1, len(comp_items))
JRange(comp_items, i) == (i + 1)..Len(comp_items)

\* The double loop from pair (i, j) on: the set of pipe lists it can append to
\* `acc`.
RECURSIVE PairLoop(_, _, _, _, _, _)
PairLoop(graph, comp_items, maxPathLength, i, j, acc) ==
    IF i > Len(comp_items) THEN {acc}
    ELSE IF j > Len(comp_items)
         THEN PairLoop(graph, comp_items, maxPathLength, i + 1, 1, acc)
    ELSE IF j \notin JRange(comp_items, i)
         THEN PairLoop(graph, comp_items, maxPathLength, i, j + 1, acc)
    ELSE UNION {PairLoop(graph, comp_items, maxPathLength, i, j + 1, acc \o o) :
                    o \in PairOutcomes(graph, comp_items, i, j, maxPathLength)}

\* The pipe lists find_all_component_paths can return.
find_all_component_paths(graph, compMap, maxPathLength) ==
    PairLoop(graph, compMap, maxPathLength, 1, 1, <<>>)

----------------------------------------------------------------------------
(* associate_labels_to_pipes                                               *)

\* sum(p[0] for p in bbox) and sum(p[1] for p in bbox)
RECURSIVE SumCoord(_, _, _)
SumCoord(bbox, c, i) ==
    IF i > Len(bbox) THEN 0 ELSE bbox[i][c] + SumCoord(bbox, c, i + 1)

\* 16 times the square of d = hypot(cx - px, cy - py), where cx and cy are the
\* coordinate sums over 4.0.
Dist16(bbox, px, py) ==
    LET sx == SumCoord(bbox, 1, 1) - 4 * px
        sy == SumCoord(bbox, 2, 1) - 4 * py
    IN  sx * sx + sy * sy

\* d <= proximity, for proximity >= 0.
Within(d16, prox) == d16 <= 16 * prox * prox

\* The candidates of one pipe, in the order of ocr_items.
RECURSIVE Candidates(_, _, _, _, _)
Candidates(items, px, py, prox, i) ==
    IF i > Len(items) THEN <<>>
    ELSE LET bbox == Get(items[i], "bbox", <<>>)
             rest == Candidates(items, px, py, prox, i + 1)
         IN  IF bbox = <<>> THEN rest
             ELSE IF Within(Dist16(bbox, px, py), prox)
                  THEN <<[d |-> Dist16(bbox, px, py), item |-> items[i]]>> \o rest
                  ELSE rest

\* Where list.sort(key = x[0]) puts c among the sorted `done`: after every
\* element whose key is not greater (the sort is stable).
InsertSorted(done, c) ==
    LET k == Cardinality({i \in 1..Len(done) : done[i].d <= c.d})
    IN  SubSeq(done, 1, k) \o <<c>> \o SubSeq(done, k + 1, Len(done))

\* Mutant: the candidates are left in the order of ocr_items.
SortByDistanceOmitted(cands, i, done) == cands

RECURSIVE SortByDistance(_, _, _)
SortByDistance(cands, i, done) ==
    IF i > Len(cands) THEN done
    ELSE SortByDistance(cands, i + 1, InsertSorted(done, cands[i]))

\* sep.join(texts)
RECURSIVE Join(_, _)
Join(texts, sep) ==
    IF texts = <<>> THEN ""
    ELSE IF Len(texts) = 1 THEN texts[1]
    ELSE texts[1] \o sep \o Join(Tail(texts), sep)

\* candidates[:2]
TopTexts(sortedCands) ==
    [i \in 1..(IF Len(sortedCands) < 2 THEN Len(sortedCands) ELSE 2) |->
        sortedCands[i].item.text]

\* All the candidates' texts.
AllTexts(sortedCands) == [i \in 1..Len(sortedCands) |-> sortedCands[i].item.text]

\* Mutant: the description lists every candidate, not the two of the label.
AnnotatePipeAllMatches(pipe, items, prox) ==
    LET cands == Candidates(items, pipe.x, pipe.y, prox, 1)
    IN  IF cands = <<>> THEN pipe
        ELSE LET ranked == SortByDistance(cands, 1, <<>>)
             IN  [pipe EXCEPT
                     !.label = Join(TopTexts(ranked), " / "),
                     !.description.ocr =
                         pipe.description.ocr \o " | OCR labels: "
                             \o Join(AllTexts(ranked), ", ")]

\* The body of the loop over pipes.
AnnotatePipe(pipe, items, prox) ==
    LET cands == Candidates(items, pipe.x, pipe.y, prox, 1)
    IN  IF cands = <<>> THEN pipe
        ELSE LET top_texts == TopTexts(SortByDistance(cands, 1, <<>>))
             IN  [pipe EXCEPT
                     !.label = Join(top_texts, " / "),
                     !.description.ocr =
                         pipe.description.ocr \o " | OCR labels: " \o Join(top_texts, ", ")]

associate_labels_to_pipes(pipeList, items, prox) ==
    [k \in 1..Len(pipeList) |-> AnnotatePipe(pipeList[k], items, prox)]

----------------------------------------------------------------------------
(* Inputs.                                                                 *)

Grid == (0..(GridW - 1)) \X (0..(GridH - 1))

\* Every skeleton of at most MaxPixels pixels on the GridW x GridH array.
GridSkeletons ==
    {[w |-> GridW, h |-> GridH, px |-> S] :
        S \in {T \in SUBSET Grid : Cardinality(T) <= MaxPixels}}

\* A straight run of eight pixels.
Line ==
    [w |-> 8, h |-> 1,
     px |-> {<<0, 0>>, <<1, 0>>, <<2, 0>>, <<3, 0>>, <<4, 0>>, <<5, 0>>, <<6, 0>>, <<7, 0>>}]

\* Three legs meeting at the junction (3, 3).
YShape ==
    [w |-> 7, h |-> 7,
     px |-> {<<0, 6>>, <<1, 5>>, <<2, 4>>, <<3, 0>>, <<3, 1>>, <<3, 2>>, <<3, 3>>,
             <<4, 4>>, <<5, 5>>, <<6, 6>>}]

\* Two junctions joined by two corridor chains of different lengths, one tail each.
Ring ==
    [w |-> 9, h |-> 4,
     px |-> {<<0, 2>>, <<1, 2>>, <<2, 1>>, <<2, 3>>, <<3, 0>>, <<3, 3>>, <<4, 0>>,
             <<4, 3>>, <<5, 0>>, <<5, 3>>, <<6, 1>>, <<6, 3>>, <<7, 2>>, <<8, 2>>}]

\* Three junctions on a cycle: the chain from (1, 3) to (5, 3) round the bottom
\* is longer than the two chains over the top junction (3, 1).
Triangle ==
    [w |-> 7, h |-> 7,
     px |-> {<<0, 3>>, <<1, 3>>, <<2, 2>>, <<2, 4>>, <<2, 5>>, <<3, 0>>, <<3, 1>>,
             <<3, 6>>, <<4, 2>>, <<4, 4>>, <<4, 5>>, <<5, 3>>, <<6, 3>>}]

\* Four junctions on a cycle with equal sides: two shortest routes between
\* opposite corners.
Diamond ==
    [w |-> 7, h |-> 7,
     px |-> {<<0, 3>>, <<1, 3>>, <<2, 2>>, <<2, 4>>, <<3, 0>>, <<3, 1>>, <<3, 5>>,
             <<3, 6>>, <<4, 2>>, <<4, 4>>, <<5, 3>>, <<6, 3>>}]

\* Two runs of seven pixels that do not touch.
TwoLines ==
    [w |-> 7, h |-> 4,
     px |-> {<<0, 0>>, <<1, 0>>, <<2, 0>>, <<3, 0>>, <<4, 0>>, <<5, 0>>, <<6, 0>>,
             <<0, 3>>, <<1, 3>>, <<2, 3>>, <<3, 3>>, <<4, 3>>, <<5, 3>>, <<6, 3>>}]

\* A straight segment of 100 pixels.
Segment == [w |-> 100, h |-> 1, px |-> {<<x, 0>> : x \in 0..99}]

\* Three legs of 6 steps each meeting at the junction (6, 6).
Wye ==
    [w |-> 13, h |-> 13,
     px |-> {<<6, y>> : y \in 0..6} \cup {<<6 - k, 6 + k>> : k \in 1..6}
                \cup {<<6 + k, 6 + k>> : k \in 1..6}]

\* A horizontal and a vertical line crossing at the centre of a 21x21 grid.
Plus ==
    [w |-> 21, h |-> 21,
     px |-> {<<10, y>> : y \in 0..20} \cup {<<x, 10>> : x \in 0..20}]

\* A closed loop of four corridor pixels and, apart from it, a vertical line.
LoopAndLine ==
    [w |-> 5, h |-> 3,
     px |-> {<<1, 0>>, <<0, 1>>, <<2, 1>>, <<1, 2>>, <<4, 0>>, <<4, 1>>, <<4, 2>>}]

Shapes == {Line, YShape, Ring, Triangle, Diamond, TwoLines, Segment, Wye}

\* Components as the component locator supplies them: {id, x, y}.
ComponentPool ==
    { [id |-> "V-2", x |-> 7,  y |-> 1],
      [id |-> "T-3", x |-> 1,  y |-> 4],
      [id |-> "E-4", x |-> 5,  y |-> 5],
      [id |-> "K-5", x |-> 3,  y |-> 0],
      [id |-> "X-6", x |-> 97, y |-> 0] }

\* One component at each end of the segment.
SegmentComponents ==
    { [id |-> "P-1", x |-> 0,  y |-> 0],
      [id |-> "P-2", x |-> 99, y |-> 0] }

\* One component at or next to the end of each leg of the wye.
WyeComponents ==
    { [id |-> "W-1", x |-> 6,  y |-> 0],
      [id |-> "W-2", x |-> 1,  y |-> 12],
      [id |-> "W-3", x |-> 12, y |-> 12] }

\* The components located on the drawing whose skeleton is sk.
ComponentsOn(sk) ==
    IF sk = Segment THEN SegmentComponents
    ELSE IF sk = Wye THEN WyeComponents
    ELSE ComponentPool

\* Components as a malformed components file gives them: one without id and
\* label, one without x, one without y.
MalformedComponents ==
    { [x |-> 7, y |-> 1],
      [id |-> "N-7", y |-> 0],
      [id |-> "N-8", x |-> 7] }

\* A components list that may hold malformed entries.
RawComponents ==
    { [id |-> "V-2", x |-> 7, y |-> 1],
      [id |-> "K-5", x |-> 3, y |-> 0] } \cup MalformedComponents

\* The axis-parallel quadrilateral with corners (x0, y0) and (x1, y1).
Box(x0, y0, x1, y1) == << <<x0, y0>>, <<x1, y0>>, <<x1, y1>>, <<x0, y1>> >>

\* OCR items in the order the OCR result lists them; the last has no bbox.
OcrPool ==
    << [text |-> "steam",  bbox |-> Box(12, 2, 14, 4)],
       [text |-> "DN50",   bbox |-> Box(3, 1, 4, 2)],
       [text |-> "PT-9",   bbox |-> Box(202, 2, 204, 4)],
       [text |-> "wort",   bbox |-> Box(2, 12, 4, 14)],
       [text |-> "scale"] >>

\* The sequences of at most n elements of the set S, and those without repeats.
RECURSIVE SeqsUpTo(_, _)
SeqsUpTo(S, n) ==
    IF n = 0 THEN {<<>>}
    ELSE LET shorter == SeqsUpTo(S, n - 1)
         IN  shorter \cup {Append(q, e) : q \in shorter, e \in S}

NoRepeat(q) == \A i, j \in 1..Len(q) : i # j => q[i] # q[j]

\* The subsequences of seq of at most n elements.
SubSeqs(seq, n) ==
    LET pick(I) == [k \in 1..Cardinality(I) |->
                       seq[CHOOSE i \in I : Cardinality({j \in I : j < i}) = k - 1]]
    IN  {pick(I) : I \in {J \in SUBSET (1..Len(seq)) : Cardinality(J) <= n}}

SnapTolerances == {3, 80}

PathLimits == {6, 6000}

\* The settings a run on the drawing whose skeleton is sk is given: the segment
\* is run with max_snap = 5 and max_path_length = 200.
SnapTolerancesOn(sk) == IF sk = Segment THEN {5} ELSE SnapTolerances

PathLimitsOn(sk) == IF sk = Segment THEN {200} ELSE PathLimits

\* generate_pnid_from_skeleton passes proximity = 40.0.
LabelProximity == 40

----------------------------------------------------------------------------
(* State machine.                                                          *)

EmptyGraph == [nodes |-> <<>>, edges |-> <<>>]

PnidOutReversed(comps, pps) ==
    [components |-> [i \in 1..Len(comps) |-> comps[Len(comps) + 1 - i]],
     pipes |-> pps,
     metadata |-> [method |-> "skeleton-mapping"]]

\* pnid_out: the components as given, the pipes and the method name.
PnidOut(comps, pps) ==
    [components |-> comps,
     pipes |-> pps,
     metadata |-> [method |-> "skeleton-mapping"]]

InitRest ==
    /\ pc = "start"
    /\ G = EmptyGraph
    /\ point_to_node = <<>>
    /\ components = <<>>
    /\ max_snap = 0
    /\ comp_map = <<>>
    /\ max_path_length = 0
    /\ pipes = <<>>
    /\ ocr_items = <<>>
    /\ proximity = 0
    /\ pnid_out = None

\* build_skeleton_graph(skel)
Build ==
    /\ pc = "start"
    /\ LET r == build_skeleton_graph(skel)
       IN  /\ G' = [nodes |-> r.nodes, edges |-> r.edges]
           /\ point_to_node' = r.point_to_node
    /\ pc' = "built"
    /\ UNCHANGED <<skel, components, max_snap, comp_map, max_path_length, pipes,
                   ocr_items, proximity, pnid_out>>

\* snap_components_to_nodes(components, G, max_snap)
Snap ==
    /\ pc = "built"
    /\ \E comps \in {q \in SeqsUpTo(ComponentsOn(skel), MaxComps) : NoRepeat(q)},
             tol \in SnapTolerancesOn(skel) :
          /\ components' = comps
          /\ max_snap' = tol
          /\ comp_map' = snap_components_to_nodes(comps, G, tol)
    /\ pc' = "snapped"
    /\ UNCHANGED <<skel, G, point_to_node, max_path_length, pipes, ocr_items, proximity,
                   pnid_out>>

\* find_all_component_paths(G, comp_map, max_path_length)
FindPaths ==
    /\ pc = "snapped"
    /\ \E limit \in PathLimitsOn(skel) :
          /\ max_path_length' = limit
          /\ pipes' \in find_all_component_paths(G, comp_map, limit)
    /\ pc' = "resolved"
    /\ UNCHANGED <<skel, G, point_to_node, components, max_snap, comp_map, ocr_items,
                   proximity, pnid_out>>

\* associate_labels_to_pipes(pipes, ocr_items, proximity), then the dictionary
\* generate_pnid_from_skeleton returns.
Associate ==
    /\ pc = "resolved"
    /\ \E items \in SubSeqs(OcrPool, MaxOcr) :
          /\ ocr_items' = items
          /\ proximity' = LabelProximity
          /\ pipes' = associate_labels_to_pipes(pipes, items, LabelProximity)
    /\ pnid_out' = PnidOut(components, pipes')
    /\ pc' = "labelled"
    /\ UNCHANGED <<skel, G, point_to_node, components, max_snap, comp_map,
                   max_path_length>>

\* The graph builder on every small skeleton and on the shapes.
InitGraph ==
    /\ skel \in GridSkeletons \cup Shapes \cup {Plus, LoopAndLine}
    /\ InitRest

NextGraph == Build

SpecGraph == InitGraph /\ [][NextGraph]_vars

\* The pipeline of generate_pnid_from_skeleton on the shapes.
Init ==
    /\ skel \in Shapes
    /\ InitRest

Next == Build \/ Snap \/ FindPaths \/ Associate

Spec == Init /\ [][Next]_vars

\* snap_components_to_nodes(components, G, max_snap) on a components list as
\* json.load returns it, well-formed or not.
SnapRaw ==
    /\ pc = "built"
    /\ \E comps \in {q \in SeqsUpTo(RawComponents, MaxComps) : NoRepeat(q)},
             tol \in SnapTolerances :
          /\ components' = comps
          /\ max_snap' = tol
          /\ comp_map' = snap_components_to_nodes(comps, G, tol)
    /\ pc' = "snapped"
    /\ UNCHANGED <<skel, G, point_to_node, max_path_length, pipes, ocr_items, proximity,
                   pnid_out>>

\* The pipeline on components lists that need not be well-formed.
InitRaw ==
    /\ skel \in {Line, YShape}
    /\ InitRest

NextRaw == Build \/ SnapRaw \/ FindPaths \/ Associate

SpecRaw == InitRaw /\ [][NextRaw]_vars

----------------------------------------------------------------------------
(* Properties of the graph builder.                                        *)

\* Two pixels are 8-neighbours.
Adjacent8(p, q) == p # q /\ Abs(p[1] - q[1]) <= 1 /\ Abs(p[2] - q[2]) <= 1

\* The 8-neighbourhood foreground count of a skeleton pixel.
ForegroundCount(pt) == Cardinality({q \in skel.px : Adjacent8(pt, q)})

VertexPositions == Range(G.nodes)

EdgeSet == Range(G.edges)

\* C1: build_skeleton_graph creates a vertex for every skeleton pixel whose
\* 8-neighbourhood foreground count is 1 (endpoint) or at least 3 (junction),
\* and none for a pixel whose count is exactly 2 (corridor pixel).
C1_VerticesAtEndpointsAndJunctions ==
    pc # "start" =>
        \A pt \in skel.px :
            /\ (ForegroundCount(pt) = 1 \/ ForegroundCount(pt) >= 3) => pt \in VertexPositions
            /\ ForegroundCount(pt) = 2 => pt \notin VertexPositions

\* A built graph whose skeleton has an endpoint, a corridor pixel and a junction.
C1_Witness ==
    /\ pc = "built"
    /\ \E p, q, r \in skel.px :
          /\ ForegroundCount(p) = 1 /\ p \in VertexPositions
          /\ ForegroundCount(q) = 2 /\ q \notin VertexPositions
          /\ ForegroundCount(r) >= 3 /\ r \in VertexPositions

\* C2: every edge of the graph joins two distinct vertices, and no two edges
\* join the same unordered pair of vertices, however many corridor chains join
\* them in the skeleton.
C2_NoSelfLoopNoParallelEdge ==
    \A k \in 1..Len(G.edges) :
        /\ G.edges[k].u # G.edges[k].v
        /\ \A m \in 1..Len(G.edges) :
              m # k => {G.edges[m].u, G.edges[m].v} # {G.edges[k].u, G.edges[k].v}

\* A vertex pixel from which the walks through two different neighbours end at
\* the same other vertex along different chains, one of them being the edge.
C2_Witness ==
    /\ pc = "built"
    /\ \E pt \in VertexPositions :
          \E i, j \in 1..8 :
              LET c  == Closure(skel)
                  ni == get_neighbor_coords(pt)[i]
                  nj == get_neighbor_coords(pt)[j]
              IN  /\ i # j /\ ni \in skel.px /\ nj \in skel.px
                  /\ walk_path(c, pt, ni).node # -1
                  /\ walk_path(c, pt, ni).node = walk_path(c, pt, nj).node
                  /\ Range(walk_path(c, pt, ni).path) # Range(walk_path(c, pt, nj).path)
                  /\ \E e \in EdgeSet : e.pixels = walk_path(c, pt, ni).path

\* The steps of a pixel chain, by kind.
OrthogonalSteps(px) ==
    {i \in 1..(Len(px) - 1) :
        Abs(px[i + 1][1] - px[i][1]) + Abs(px[i + 1][2] - px[i][2]) = 1}

DiagonalSteps(px) ==
    {i \in 1..(Len(px) - 1) :
        Abs(px[i + 1][1] - px[i][1]) = 1 /\ Abs(px[i + 1][2] - px[i][2]) = 1}

\* C3: the length of every stored edge is the sum of the Euclidean distances
\* between the consecutive points of its own pixel chain, 1 per orthogonal step
\* and sqrt(2) per diagonal step, and is greater than 0.
C3_EdgeLengthIsChainLength ==
    \A e \in EdgeSet :
        /\ Cardinality(OrthogonalSteps(e.pixels)) + Cardinality(DiagonalSteps(e.pixels))
               = Len(e.pixels) - 1
        /\ e.length.r = Cardinality(OrthogonalSteps(e.pixels))
        /\ e.length.s = Cardinality(DiagonalSteps(e.pixels))
        /\ e.length.r + e.length.s > 0

\* An edge whose chain has orthogonal and diagonal steps.
C3_Witness ==
    /\ pc = "built"
    /\ \E e \in EdgeSet :
          OrthogonalSteps(e.pixels) # {} /\ DiagonalSteps(e.pixels) # {}

----------------------------------------------------------------------------
(* Properties of the component snapper.                                    *)

Snapped == pc \in {"snapped", "resolved", "labelled"}

Resolved == pc \in {"resolved", "labelled"}

\* The square of the distance from component c to vertex n.
SquaredDistance(c, n) ==
    (G.nodes[n][1] - c.x) * (G.nodes[n][1] - c.x)
        + (G.nodes[n][2] - c.y) * (G.nodes[n][2] - c.y)

\* The vertices within the snap tolerance of component c.
VerticesInRange(c) ==
    {n \in DOMAIN G.nodes : SquaredDistance(c, n) <= max_snap * max_snap}

MappedIds == {comp_map[i].id : i \in 1..Len(comp_map)}

\* The vertex a mapped component id is mapped to.
VertexOf(id) == (CHOOSE e \in Range(comp_map) : e.id = id).node

\* C4: a component is mapped if and only if its least distance to a vertex is
\* at most the snap tolerance; it is then mapped to a vertex at that least
\* distance, the first in vertex order among several.
C4_SnapToNearestWithinTolerance ==
    Snapped =>
        \A i \in 1..Len(components) :
            LET c == components[i]
            IN  /\ c.id \in MappedIds <=> VerticesInRange(c) # {}
                /\ c.id \in MappedIds =>
                      \A n \in DOMAIN G.nodes :
                          /\ SquaredDistance(c, VertexOf(c.id)) <= SquaredDistance(c, n)
                          /\ n < VertexOf(c.id) =>
                                 SquaredDistance(c, VertexOf(c.id)) < SquaredDistance(c, n)

\* One component with two nearest vertices at the same distance is mapped to the
\* first of them, a second component is at exactly the tolerance from its
\* vertex, and a third is left unmapped.
C4_Witness ==
    /\ pc = "snapped"
    /\ \E i, j, k \in 1..Len(components) :
          /\ components[i].id \in MappedIds
          /\ \E n \in DOMAIN G.nodes :
                /\ n > VertexOf(components[i].id)
                /\ SquaredDistance(components[i], n)
                       = SquaredDistance(components[i], VertexOf(components[i].id))
          /\ components[j].id \in MappedIds
          /\ SquaredDistance(components[j], VertexOf(components[j].id)) = max_snap * max_snap
          /\ components[k].id \notin MappedIds

\* C8: a component whose nearest vertex is farther than the snap tolerance is
\* left out of the mapping, and no pipe has it as source or target.
C8_OutOfRangeComponentUnmapped ==
    Snapped =>
        \A i \in 1..Len(components) :
            (\A n \in DOMAIN G.nodes :
                 SquaredDistance(components[i], n) > max_snap * max_snap)
            => /\ components[i].id \notin MappedIds
               /\ \A k \in 1..Len(pipes) :
                     pipes[k].source # components[i].id /\ pipes[k].target # components[i].id

\* A component 90 pixels from its nearest vertex with a tolerance of 80, in a
\* run that emitted a pipe.
C8_Witness ==
    /\ Resolved
    /\ max_snap = 80
    /\ pipes # <<>>
    /\ \E i \in 1..Len(components) :
          /\ \E n \in DOMAIN G.nodes : SquaredDistance(components[i], n) = 90 * 90
          /\ \A n \in DOMAIN G.nodes : SquaredDistance(components[i], n) >= 90 * 90
          /\ components[i].id \notin MappedIds

----------------------------------------------------------------------------
(* Properties of the path resolver.                                        *)

\* The edge of the graph between two vertices.
EdgeBetween(u, v) == CHOOSE e \in EdgeSet : {e.u, e.v} = {u, v}

\* The sum of the edge lengths along a vertex sequence, from its k-th vertex on.
RECURSIVE RouteLength(_, _)
RouteLength(q, k) ==
    IF k >= Len(q) THEN LenZero
    ELSE LenAdd(EdgeBetween(q[k], q[k + 1]).length, RouteLength(q, k + 1))

\* The paths of the graph between the vertices of two mapped components.
Routes(i, j) == SimplePaths(G, comp_map[i].node, comp_map[j].node)

\* No route between the two vertices is shorter than q.
Shortest(q, i, j) == \A q2 \in Routes(i, j) : ~LenLess(RouteLength(q2, 1), RouteLength(q, 1))

PipeEmitted(i, j) ==
    \E k \in 1..Len(pipes) :
        pipes[k].source = comp_map[i].id /\ pipes[k].target = comp_map[j].id

\* The position of a component id in the mapping's order.
MapIndex(id) == CHOOSE i \in 1..Len(comp_map) : comp_map[i].id = id

\* C5: for every pair of mapped components a pipe is emitted exactly when a
\* connecting path exists and the length of the shortest one is above 5 px and
\* at most max_path_length.
C5_PipeIffAdmissiblePath ==
    pc = "resolved" =>
        \A i, j \in 1..Len(comp_map) :
            i < j =>
                (PipeEmitted(i, j) <=>
                    \E q \in Routes(i, j) :
                        /\ Shortest(q, i, j)
                        /\ LenGtInt(RouteLength(q, 1), 5)
                        /\ LenLeInt(RouteLength(q, 1), max_path_length))

\* One pair with a pipe, and one pair left out because its path is too long.
C5_Witness ==
    /\ pc = "resolved"
    /\ \E i, j, m, n \in 1..Len(comp_map) :
          /\ i < j /\ PipeEmitted(i, j)
          /\ m < n /\ ~PipeEmitted(m, n)
          /\ \E q \in Routes(m, n) :
                Shortest(q, m, n) /\ LenGtInt(RouteLength(q, 1), max_path_length)

\* C6: the path_length of every pipe is the sum of the edge lengths along a path
\* between the vertices of its two components, and no path between them in the
\* graph has a smaller sum.
C6_PathLengthIsShortest ==
    pc = "resolved" =>
        \A k \in 1..Len(pipes) :
            LET i == MapIndex(pipes[k].source)
                j == MapIndex(pipes[k].target)
            IN  /\ \E q \in Routes(i, j) : RouteLength(q, 1) = pipes[k].path_length
                /\ \A q \in Routes(i, j) : ~LenLess(RouteLength(q, 1), pipes[k].path_length)

\* A pipe between two vertices that are also joined by a longer path of fewer
\* edges.
C6_Witness ==
    /\ pc = "resolved"
    /\ \E k \in 1..Len(pipes) :
          LET i == MapIndex(pipes[k].source)
              j == MapIndex(pipes[k].target)
          IN  \E q, q2 \in Routes(i, j) :
                  /\ RouteLength(q, 1) = pipes[k].path_length
                  /\ LenLess(RouteLength(q, 1), RouteLength(q2, 1))
                  /\ Len(q2) < Len(q)

\* C7: no two pipes are for the same unordered pair of components, no pipe has
\* its source as its target, and the source of every pipe precedes its target
\* in the order of the mapping.
C7_EachPairOnceInMappingOrder ==
    Resolved =>
        \A k \in 1..Len(pipes) :
            /\ pipes[k].source # pipes[k].target
            /\ pipes[k].source \in MappedIds /\ pipes[k].target \in MappedIds
            /\ MapIndex(pipes[k].source) < MapIndex(pipes[k].target)
            /\ \A m \in 1..Len(pipes) :
                  m # k => {pipes[m].source, pipes[m].target}
                              # {pipes[k].source, pipes[k].target}

\* Three mapped components with a pipe for each of the three pairs.
C7_Witness ==
    /\ pc = "resolved"
    /\ Len(comp_map) = 3
    /\ Len(pipes) = 3

\* C9: the path_pixels of every pipe run from the vertex of the source
\* component to the vertex of the target component, each consecutive pair
\* 8-adjacent, and the pipe's (x, y) is the pixel at the middle index.
C9_PathPixelsTraceSourceToTarget ==
    pc = "resolved" =>
        \A k \in 1..Len(pipes) :
            LET px == pipes[k].path_pixels
            IN  /\ px # <<>>
                /\ px[1] = G.nodes[VertexOf(pipes[k].source)]
                /\ px[Len(px)] = G.nodes[VertexOf(pipes[k].target)]
                /\ \A i \in 1..(Len(px) - 1) : Adjacent8(px[i], px[i + 1])
                /\ <<pipes[k].x, pipes[k].y>> = px[(Len(px) \div 2) + 1]

----------------------------------------------------------------------------
(* Properties of the label annotator.                                      *)

\* Four times the centroid of the bbox of the i-th OCR item.
Centroid4(i) ==
    LET b == ocr_items[i].bbox
    IN  <<b[1][1] + b[2][1] + b[3][1] + b[4][1], b[1][2] + b[2][2] + b[3][2] + b[4][2]>>

\* Sixteen times the square of the distance from that centroid to the midpoint
\* of the k-th pipe.
Offset16(i, k) ==
    (Centroid4(i)[1] - 4 * pipes[k].x) * (Centroid4(i)[1] - 4 * pipes[k].x)
        + (Centroid4(i)[2] - 4 * pipes[k].y) * (Centroid4(i)[2] - 4 * pipes[k].y)

\* The OCR items whose centroid lies within `proximity` of the k-th pipe.
NearItems(k) ==
    {i \in 1..Len(ocr_items) :
        "bbox" \in DOMAIN ocr_items[i] /\ Offset16(i, k) <= 16 * proximity * proximity}

\* C10: the label of a pipe is the text of the nearest OCR item within
\* `proximity` of its midpoint, followed by " / " and the text of the next
\* nearest when there is one; items farther than `proximity` do not
\* contribute, and a pipe with no item within `proximity` has an empty label.
C10_LabelIsTwoNearestTexts ==
    pc = "labelled" =>
        \A k \in 1..Len(pipes) :
            LET near == NearItems(k)
            IN  IF near = {} THEN pipes[k].label = ""
                ELSE \E i \in near :
                        /\ \A m \in near : Offset16(i, k) <= Offset16(m, k)
                        /\ IF near = {i} THEN pipes[k].label = ocr_items[i].text
                           ELSE \E j \in near \ {i} :
                                   /\ \A m \in near \ {i, j} : Offset16(j, k) <= Offset16(m, k)
                                   /\ pipes[k].label
                                          = ocr_items[i].text \o " / " \o ocr_items[j].text

\* A labelled pipe with three items within 40 px, one of them 10 px away, and an
\* item 200 px away.
C10_Witness ==
    /\ pc = "labelled"
    /\ proximity = 40
    /\ \E k \in 1..Len(pipes) :
          /\ Cardinality(NearItems(k)) = 3
          /\ \E i \in NearItems(k) : Offset16(i, k) = 16 * 10 * 10
          /\ \E i \in 1..Len(ocr_items) :
                "bbox" \in DOMAIN ocr_items[i] /\ Offset16(i, k) = 16 * 200 * 200
          /\ pipes[k].label # ""

----------------------------------------------------------------------------
(* Scenarios and edge cases of the graph builder.                          *)

VertexIds == DOMAIN G.nodes

\* The vertices at junction pixels and at endpoint pixels.
JunctionVertices == {n \in VertexIds : ForegroundCount(G.nodes[n]) >= 3}

EndpointVertices == {n \in VertexIds : ForegroundCount(G.nodes[n]) = 1}

\* The number of edges at a vertex.
GraphDegree(n) ==
    Cardinality({k \in 1..Len(G.edges) : G.edges[k].u = n \/ G.edges[k].v = n})

EdgesOfLength(len) == {k \in 1..Len(G.edges) : G.edges[k].length = len}

\* C11 as stated: the '+' of a horizontal and a vertical line crossing at the
\* centre of a 21x21 grid yields exactly 1 junction vertex (degree 4), exactly 4
\* endpoint vertices (degree 1) and exactly 4 edges, each of length 10.
C11_PlusOneJunctionFourEdges ==
    (pc = "built" /\ skel = Plus) =>
        /\ Cardinality(JunctionVertices) = 1
        /\ \A n \in JunctionVertices : GraphDegree(n) = 4
        /\ Cardinality(EndpointVertices) = 4
        /\ \A n \in EndpointVertices : GraphDegree(n) = 1
        /\ Len(G.edges) = 4
        /\ \A e \in EdgeSet : e.length = [r |-> 10, s |-> 0]

\* C11 amended: the '+' yields 5 junction vertices, the centre and the four arm
\* pixels next to it, each of degree 4, and 4 endpoint vertices of degree 1; its
\* 12 edges are 4 of length 9 from an endpoint to the arm junction of its arm,
\* 4 of length 1 from the centre to an arm junction and 4 of length sqrt(2)
\* between the arm junctions of neighbouring arms.
C11_PlusFiveJunctionsTwelveEdges ==
    (pc = "built" /\ skel = Plus) =>
        /\ {G.nodes[n] : n \in JunctionVertices}
               = {<<10, 10>>, <<10, 9>>, <<10, 11>>, <<9, 10>>, <<11, 10>>}
        /\ \A n \in JunctionVertices : GraphDegree(n) = 4
        /\ {G.nodes[n] : n \in EndpointVertices}
               = {<<10, 0>>, <<10, 20>>, <<0, 10>>, <<20, 10>>}
        /\ \A n \in EndpointVertices : GraphDegree(n) = 1
        /\ VertexIds = JunctionVertices \cup EndpointVertices
        /\ Len(G.edges) = 12
        /\ Cardinality(EdgesOfLength([r |-> 9, s |-> 0])) = 4
        /\ \A k \in EdgesOfLength([r |-> 9, s |-> 0]) :
              {G.edges[k].u, G.edges[k].v} \cap EndpointVertices # {}
        /\ Cardinality(EdgesOfLength([r |-> 1, s |-> 0])) = 4
        /\ \A k \in EdgesOfLength([r |-> 1, s |-> 0]) :
              <<10, 10>> \in {G.nodes[G.edges[k].u], G.nodes[G.edges[k].v]}
        /\ Cardinality(EdgesOfLength([r |-> 0, s |-> 1])) = 4

\* The graph of the '+' is built.
C11_Witness ==
    /\ pc = "built"
    /\ skel = Plus
    /\ <<10, 10>> \in VertexPositions
    /\ Len(G.edges) > 0

\* C12 as stated: an isolated skeleton pixel (no foreground pixel among its 8
\* neighbours) produces no vertex in the graph.
C12_IsolatedPixelNoVertex ==
    pc # "start" =>
        \A pt \in skel.px : ForegroundCount(pt) = 0 => pt \notin VertexPositions

\* C12 amended: an isolated skeleton pixel has degree 0, which is not 2, so it
\* produces a vertex; the vertex has no edge.
C12_IsolatedPixelIsEdgelessVertex ==
    pc # "start" =>
        \A pt \in skel.px :
            ForegroundCount(pt) = 0 =>
                /\ pt \in VertexPositions
                /\ GraphDegree(point_to_node[pt]) = 0

\* A built graph of a skeleton with an isolated pixel and an edge elsewhere.
C12_Witness ==
    /\ pc = "built"
    /\ \E pt \in skel.px : ForegroundCount(pt) = 0
    /\ Len(G.edges) > 0

\* C13: in every graph build_skeleton_graph produces no two vertices have the
\* same position, and the returned point_to_node is a one-to-one correspondence
\* between the vertex positions and the vertex ids.
C13_VertexPositionsDistinct ==
    pc # "start" =>
        /\ \A m, n \in VertexIds : m # n => G.nodes[m] # G.nodes[n]
        /\ DOMAIN point_to_node = VertexPositions
        /\ \A n \in VertexIds : point_to_node[G.nodes[n]] = n
        /\ \A p, q \in DOMAIN point_to_node :
              p # q => point_to_node[p] # point_to_node[q]

\* A built graph with at least three vertices.
C13_Witness ==
    /\ pc = "built"
    /\ Cardinality(VertexIds) >= 3
    /\ Cardinality(DOMAIN point_to_node) >= 3

\* C14: the pixels of every stored edge are an ordered chain that starts at the
\* position of one of the edge's two vertices, ends at the position of the
\* other, and in which every two consecutive points are 8-neighbours.
C14_EdgePixelsJoinItsVertices ==
    \A e \in EdgeSet :
        /\ Len(e.pixels) >= 2
        /\ {e.pixels[1], e.pixels[Len(e.pixels)]} = {G.nodes[e.u], G.nodes[e.v]}
        /\ e.pixels[1] # e.pixels[Len(e.pixels)]
        /\ \A i \in 1..(Len(e.pixels) - 1) : Adjacent8(e.pixels[i], e.pixels[i + 1])

\* An edge through corridor pixels and an edge between two adjacent vertex pixels.
C14_Witness ==
    /\ pc = "built"
    /\ \E e \in EdgeSet : Len(e.pixels) >= 3
    /\ \E e \in EdgeSet : Len(e.pixels) = 2

----------------------------------------------------------------------------
(* Relational properties of the snapper and of the path resolver.          *)

\* Tolerances at least as large as the one the run was given.
WiderTolerances == {t \in {max_snap, max_snap + 1, 2 * max_snap + 1} \cup SnapTolerances : t >= max_snap}

\* C15: for a fixed graph and component list, every component mapped under the
\* snap tolerance of the run is mapped, to the same vertex, under every
\* tolerance at least as large: raising the tolerance only turns unmapped
\* components into mapped ones.
C15_SnapMonotone ==
    pc = "snapped" =>
        \A t \in WiderTolerances :
            LET wider == snap_components_to_nodes(components, G, t)
            IN  \A k \in 1..Len(comp_map) :
                    \E m \in 1..Len(wider) :
                        wider[m].id = comp_map[k].id /\ wider[m].node = comp_map[k].node

\* One component is mapped under the run's tolerance, another is unmapped under
\* it and mapped under a larger one.
C15_Witness ==
    /\ pc = "snapped"
    /\ comp_map # <<>>
    /\ \E i \in 1..Len(components), t \in WiderTolerances :
          /\ components[i].id \notin MappedIds
          /\ \E m \in 1..Len(snap_components_to_nodes(components, G, t)) :
                snap_components_to_nodes(components, G, t)[m].id = components[i].id

\* The component list in the opposite order.
Reverse(q) == [i \in 1..Len(q) |-> q[Len(q) + 1 - i]]

\* The pipe p joins the same two components as the pipe r, the other way round,
\* with the same path_length.
Mirrors(p, r) ==
    p.source = r.target /\ p.target = r.source /\ p.path_length = r.path_length

----------------------------------------------------------------------------
(* Scenarios of the path resolver.                                         *)

\* The graph is a Y: one junction vertex, three endpoint vertices and three
\* edges, each from the junction to an endpoint and longer than the noise
\* threshold.
IsWye ==
    /\ Cardinality(JunctionVertices) = 1
    /\ Cardinality(EndpointVertices) = 3
    /\ VertexIds = JunctionVertices \cup EndpointVertices
    /\ Len(G.edges) = 3
    /\ \A e \in EdgeSet :
          /\ {e.u, e.v} \cap JunctionVertices # {}
          /\ {e.u, e.v} \cap EndpointVertices # {}
          /\ LenGtInt(e.length, MinPathLength)

\* The length of the leg that ends at the endpoint vertex n.
LegLength(n) == (CHOOSE e \in EdgeSet : n \in {e.u, e.v}).length

\* One component is mapped to the end of each leg.
OnePerLeg ==
    /\ Len(comp_map) = 3
    /\ {comp_map[i].node : i \in 1..3} = EndpointVertices

\* C17: on a Y-shaped skeleton with one component at the end of each leg, all
\* within the snap tolerance, legs longer than the noise threshold and a path
\* limit that admits every pair, exactly 3 pipes are emitted, one per pair of
\* legs, and the path_length of each is the length of the edge from the first
\* component's vertex to the junction plus the length of the edge from the
\* junction to the second component's vertex.
C17_WyeThreePipesThroughJunction ==
    (pc = "resolved" /\ IsWye /\ OnePerLeg
        /\ \A m, n \in EndpointVertices :
              m # n => LenLeInt(LenAdd(LegLength(m), LegLength(n)), max_path_length))
    => /\ Len(pipes) = 3
       /\ \A i, j \in 1..3 :
             i < j => \E k \in 1..3 :
                         /\ pipes[k].source = comp_map[i].id
                         /\ pipes[k].target = comp_map[j].id
                         /\ pipes[k].path_length
                                = LenAdd(LegLength(comp_map[i].node), LegLength(comp_map[j].node))

\* The wye resolved with a component snapped to the end of each leg, one of
\* them from a pixel beside the end.
C17_Witness ==
    /\ pc = "resolved"
    /\ IsWye /\ OnePerLeg
    /\ Len(pipes) = 3
    /\ \E i \in 1..Len(components) :
          <<components[i].x, components[i].y>> \notin VertexPositions

\* The run of the segment scenario: a component at each of the two ends of the
\* 100-pixel segment, max_snap = 5 and max_path_length = 200.
SegmentRun ==
    /\ skel = Segment
    /\ Len(components) = 2
    /\ {<<components[i].x, components[i].y>> : i \in 1..2} = {<<0, 0>>, <<99, 0>>}
    /\ max_snap = 5
    /\ max_path_length = 200

\* C18: for a single straight segment of 100 pixels with one component at each
\* of its two endpoints, snap tolerance 5 and path limit 200, exactly one pipe
\* is emitted and its path_length is approximately 100: within one pixel of it.
C18_SegmentOnePipe ==
    (pc = "resolved" /\ SegmentRun) =>
        /\ Len(pipes) = 1
        /\ ~LenLess(pipes[1].path_length, [r |-> 99, s |-> 0])
        /\ LenLeInt(pipes[1].path_length, 101)

\* The segment scenario resolved: the pipe joins the two components and its
\* path_length is the 99 unit steps between the 100 pixels.
C18_Witness ==
    /\ pc = "resolved"
    /\ SegmentRun
    /\ Len(pipes) = 1
    /\ {pipes[1].source, pipes[1].target} = {components[1].id, components[2].id}
    /\ pipes[1].path_length = [r |-> 99, s |-> 0]

----------------------------------------------------------------------------
(* Label and description of a pipe.                                        *)

\* The string t occurs in the string s.
Occurs(s, t) ==
    \E i \in 1..(Len(s) - Len(t) + 1) : SubSeq(s, i, i + Len(t) - 1) = t

\* The string t occurs in s followed by more text that is not the separator of
\* the list.
OccursWithSuffix(s, t, sep) ==
    \E i \in 1..(Len(s) - Len(t)) :
        /\ SubSeq(s, i, i + Len(t) - 1) = t
        /\ SubSeq(s, i + Len(t), i + Len(t) + Len(sep) - 1) # sep

\* C19 as stated: after associate_labels_to_pipes the description of a pipe
\* lists every OCR text that matched, each followed by its distance.
C19_DescriptionListsAllMatches ==
    pc = "labelled" =>
        \A k \in 1..Len(pipes) :
            \A i \in NearItems(k) :
                /\ Occurs(pipes[k].description.ocr, ocr_items[i].text)
                /\ OccursWithSuffix(pipes[k].description.ocr, ocr_items[i].text, ", ")

\* The items of near(k) in the order the stable sort by distance leaves them:
\* i comes before j.
Before(i, j, k) ==
    Offset16(i, k) < Offset16(j, k) \/ (Offset16(i, k) = Offset16(j, k) /\ i < j)

\* C19 amended: after associate_labels_to_pipes the description of a pipe with
\* a match is its description as created followed by " | OCR labels: " and the
\* texts of the two nearest matches (of the one match when there is only one)
\* joined by ", ", without distances; further matches are not listed, and the
\* description of a pipe without a match is unchanged.
C19_DescriptionListsTwoNearestTexts ==
    pc = "labelled" =>
        \A k \in 1..Len(pipes) :
            LET near   == NearItems(k)
                first  == CHOOSE i \in near : \A m \in near \ {i} : Before(i, m, k)
                second == CHOOSE j \in near \ {first} :
                              \A m \in near \ {first, j} : Before(j, m, k)
                d      == pipes[k].description
            IN  /\ d.text = GeomText /\ d.total_length = pipes[k].path_length
                /\ near = {} => d.ocr = ""
                /\ Cardinality(near) = 1 =>
                      d.ocr = " | OCR labels: " \o ocr_items[first].text
                /\ Cardinality(near) >= 2 =>
                      d.ocr = " | OCR labels: " \o ocr_items[first].text \o ", "
                                  \o ocr_items[second].text

\* A labelled pipe with at least three matches, whose description leaves one
\* of them out.
C19_Witness ==
    /\ pc = "labelled"
    /\ \E k \in 1..Len(pipes) :
          /\ Cardinality(NearItems(k)) >= 3
          /\ \E i \in NearItems(k) : ~Occurs(pipes[k].description.ocr, ocr_items[i].text)

\* C20 as stated: every pipe as find_all_component_paths creates it has an
\* empty label and an empty description.
C20_CreatedPipeLabelAndDescriptionEmpty ==
    pc = "resolved" =>
        \A k \in 1..Len(pipes) :
            /\ pipes[k].label = ""
            /\ pipes[k].description.text = ""
            /\ pipes[k].description.ocr = ""

\* C20 amended: every pipe as find_all_component_paths creates it has an empty
\* label and the description "Geometric path via skeleton, length <L>px", where
\* <L> is its path_length to one decimal.
C20_CreatedPipeHasGeometricDescription ==
    pc = "resolved" =>
        \A k \in 1..Len(pipes) :
            /\ pipes[k].label = ""
            /\ pipes[k].description.text
                   = "Geometric path via skeleton, length {total_length:.1f}px"
            /\ pipes[k].description.total_length = pipes[k].path_length
            /\ pipes[k].description.ocr = ""

\* The resolver has created two pipes or more.
C20_Witness ==
    /\ pc = "resolved"
    /\ Len(pipes) >= 2
    /\ \A k \in 1..Len(pipes) : pipes[k].description.text # ""

-----------------------------------------------------------------------------
(* C21: unmapped components in the output.                                 *)

\* The components of the run that have no vertex within the snap tolerance.
OutOfRange == {i \in 1..Len(components) : VerticesInRange(components[i]) = {}}

\* What pnid_out holds besides the components, the pipes and the method name.
ReportEntries ==
    (DOMAIN pnid_out \ {"components", "pipes", "metadata"})
        \cup (DOMAIN pnid_out.metadata \ {"method"})

\* C21: when the run has ended and a component has no vertex within the snap
\* tolerance, the output holds an entry (a count or a list of the unmapped
\* components) that records it.
C21_UnmappedComponentsRecorded ==
    (pc = "labelled" /\ OutOfRange # {}) => ReportEntries # {}

-----------------------------------------------------------------------------
(* C22: malformed components lists.                                        *)

\* A component has an id and a position.
WellFormed(comp) == {"id", "x", "y"} \subseteq DOMAIN comp

\* C22: no stage runs on a malformed components list: whenever the snapper
\* has run, every component of the list has an id, an x and a y (a list with
\* a malformed component aborts the run instead).
C22_NoStageRunsOnMalformedComponents ==
    Snapped => \A i \in 1..Len(components) : WellFormed(components[i])

-----------------------------------------------------------------------------
(* C23: no stage changes what an earlier stage produced.                   *)

\* C23: every step after the graph is built leaves the vertices, the edges
\* with their lengths and pixel chains and point_to_node as they are; path
\* resolution and annotation leave the mapping and the components list as
\* they are; and the components of the output are the components list given,
\* element for element.
C23_DownstreamLeavesUpstreamUnchanged ==
    [][ /\ pc # "start" => (G' = G /\ point_to_node' = point_to_node)
        /\ pc \in {"snapped", "resolved"}
               => (comp_map' = comp_map /\ components' = components)
        /\ pc' = "labelled" => pnid_out'.components = components ]_vars

\* A run has ended on two components or more that a pipe joins.
C23_Witness ==
    /\ pc = "labelled"
    /\ Len(components) >= 2
    /\ pipes # <<>>
    /\ pnid_out.components = components
    /\ pnid_out.pipes = pipes

-----------------------------------------------------------------------------
(* C24: the walks of the graph builder end.                                *)

\* The state in which the while loop of walk_path(pt, nb) ends.
WalkEnd(c, pt, nb) == WalkLoop(c, pt, WalkStart(pt, nb), c.max_steps)

\* The walks the builder starts: from a vertex pixel to a foreground neighbour.
WalksOf(c) ==
    {<<pt, get_neighbor_coords(pt)[i]>> : pt \in c.node_points, i \in 1..8}
        \cap (c.node_points \X c.points)

\* The pixel pt occurs in the path after its first position.
ComesBackTo(path, pt) == \E k \in 2..Len(path) : path[k] = pt

\* C24: every walk the builder starts ends after at most skel.size iterations
\* (the number of pixels of the raster): it has returned by then or it stops at
\* exactly that count, and its path has grown by one pixel per iteration at
\* most.
C24_EveryWalkEndsWithinSkeletonSize ==
    pc = "built" =>
        \A c \in {Closure(skel)} :
            \A sn \in WalksOf(c) :
                \A w \in {WalkEnd(c, sn[1], sn[2])} :
                    /\ w.steps <= skel.w * skel.h
                    /\ w.done \/ w.steps = skel.w * skel.h
                    /\ Len(w.path) <= w.steps + 2

\* The graph is built from a skeleton on which a walk comes back to its own
\* start vertex, goes round again and is ended by the limit.
C24_Witness ==
    /\ pc = "built"
    /\ G.edges # <<>>
    /\ \E c \in {Closure(skel)} :
          \E sn \in WalksOf(c) :
              \E w \in {WalkEnd(c, sn[1], sn[2])} :
                  /\ ~w.done
                  /\ w.steps = skel.w * skel.h
                  /\ ComesBackTo(w.path, sn[1])

-----------------------------------------------------------------------------
(* C27: of several chains between two vertices the first found is stored.  *)

\* The walk the scan makes at the k-th vertex pixel, in ascending order, and
\* its i-th neighbour, in offset order; NoWalk when that is not foreground.
ScanWalkAt(c, k, i) ==
    LET pt == c.order[k]
        nb == get_neighbor_coords(pt)[i]
    IN  IF nb \in c.points THEN walk_path(c, pt, nb) ELSE NoWalk

\* The walks of the scan that end at a vertex other than their start, with the
\* scan position (k, i), the start vertex u, the end vertex v and the path.
ScanWalks(c) ==
    LET all == {[k |-> ki[1], i |-> ki[2], u |-> ki[1] - 1,
                 walk |-> ScanWalkAt(c, ki[1], ki[2])] :
                   ki \in (1..Len(c.order)) \X (1..8)}
    IN  {[k |-> f.k, i |-> f.i, u |-> f.u, v |-> f.walk.node, path |-> f.walk.path] :
            f \in {g \in all : g.walk.node # -1 /\ g.walk.node # g.u}}

\* The scan makes the walk f before the walk g.
Earlier(f, g) == f.k < g.k \/ (f.k = g.k /\ f.i < g.i)

SamePair(f, g) == {f.u, f.v} = {g.u, g.v}

\* C27: the edge stored for a pair of vertices has the direction, the pixels
\* and the length of the first walk of the scan (vertex pixels ascending,
\* neighbours in offset order) that joins the pair, whatever the walks that
\* join the pair later are, and every pair some walk joins has an edge.
C27_FirstDiscoveredChainIsStored ==
    pc = "built" =>
        \A ws \in {ScanWalks(Closure(skel))} :
            /\ \A e \in EdgeSet :
                  \E f \in ws :
                      /\ SamePair(f, e)
                      /\ \A g \in ws : SamePair(g, e) => ~Earlier(g, f)
                      /\ e.u = f.u /\ e.v = f.v
                      /\ e.pixels = f.path
                      /\ e.length = PathLength(f.path, 1, Len(f.path))
            /\ \A f \in ws : \E e \in EdgeSet : SamePair(f, e)

\* Two chains with corridor pixels join a pair of vertices; the one walked
\* later over other pixels is shorter than the one stored.
C27_Witness ==
    /\ pc = "built"
    /\ \E ws \in {ScanWalks(Closure(skel))} :
          \E f, g \in ws, e \in EdgeSet :
              /\ SamePair(f, e) /\ SamePair(g, e)
              /\ Earlier(f, g)
              /\ e.pixels = f.path
              /\ Len(f.path) >= 3 /\ Len(g.path) >= 3
              /\ Range(g.path) # Range(f.path)
              /\ LenLess(PathLength(g.path, 1, Len(g.path)), e.length)

-----------------------------------------------------------------------------
(* C28: closed loops without a junction.                                   *)

\* S and the foreground pixels of pts next to a pixel of S.
Grow(pts, S) ==
    S \cup ({get_neighbor_coords(p)[i] : p \in S, i \in 1..8} \cap pts)

\* Grow applied n times (as two halves).
RECURSIVE GrowTimes(_, _, _)
GrowTimes(pts, S, n) ==
    IF n = 0 THEN S
    ELSE IF n = 1 THEN Grow(pts, S)
    ELSE CHOOSE r \in {GrowTimes(pts, half, n - (n \div 2)) :
                         half \in {GrowTimes(pts, S, n \div 2)}} : TRUE

\* The pixels of the skeleton 8-connected to a pixel of S, S included.
ConnectedTo(S) == GrowTimes(skel.px, S, Cardinality(skel.px))

\* The pixels of the components of the skeleton in which every pixel has
\* exactly 2 foreground neighbours: the closed loops without a junction.
LoopPixels ==
    skel.px \ ConnectedTo({p \in skel.px : ForegroundCount(p) # 2})

\* C28: a pixel of a closed loop without a junction is not a vertex, no walk
\* of the scan that ends at a vertex passes over it and it lies on no edge.
C28_JunctionFreeLoopGivesNoEdge ==
    pc = "built" =>
        \A loop \in {LoopPixels} :
            /\ loop \cap VertexPositions = {}
            /\ \A e \in EdgeSet : loop \cap Range(e.pixels) = {}
            /\ \A f \in ScanWalks(Closure(skel)) : loop \cap Range(f.path) = {}

\* The skeleton holds a closed loop without a junction next to a piece that
\* gives an edge.
C28_Witness ==
    /\ pc = "built"
    /\ Cardinality(LoopPixels) >= 4
    /\ G.edges # <<>>

-----------------------------------------------------------------------------
(* C29: the pixel chain of an edge is simple and runs over corridor pixels. *)

\* C29: in the pixels of every edge no pixel occurs twice, and every pixel but
\* the first and the last has exactly 2 foreground neighbours.
C29_EdgeChainSimpleOverCorridorPixels ==
    pc = "built" =>
        \A e \in EdgeSet :
            /\ \A i, j \in 1..Len(e.pixels) : i # j => e.pixels[i] # e.pixels[j]
            /\ \A k \in 2..(Len(e.pixels) - 1) : ForegroundCount(e.pixels[k]) = 2

\* A walk goes round a loop, back through its start vertex and on to another
\* vertex, which an edge joins to the start.
C29_Witness ==
    /\ pc = "built"
    /\ \E c \in {Closure(skel)} :
          \E f \in ScanWalks(c), e \in EdgeSet :
              /\ ComesBackTo(f.path, c.order[f.k])
              /\ SamePair(f, e)
              /\ e.pixels # f.path

-----------------------------------------------------------------------------
(* C30: the graph connects what the skeleton connects.                     *)

\* The vertices of S and the vertices an edge joins to one of them.
GrowByEdges(S) ==
    S \cup {e.v : e \in {d \in EdgeSet : d.u \in S}}
      \cup {e.u : e \in {d \in EdgeSet : d.v \in S}}

RECURSIVE GrowByEdgesTimes(_, _)
GrowByEdgesTimes(S, n) ==
    IF n = 0 THEN S ELSE GrowByEdgesTimes(GrowByEdges(S), n - 1)

\* The vertices a path of the graph joins to u, u included.
GraphReach(u) == GrowByEdgesTimes({u}, Cardinality(DOMAIN G.nodes))

\* The vertices whose pixel lies in the 8-connected component of u's pixel.
SkeletonReach(u) ==
    {v \in DOMAIN G.nodes : G.nodes[v] \in ConnectedTo({G.nodes[u]})}

\* C30: a path of the graph joins two vertices if and only if their pixels
\* lie in the same 8-connected component of the skeleton.
C30_GraphConnectivityIsSkeletonConnectivity ==
    pc = "built" =>
        \A u \in DOMAIN G.nodes : GraphReach(u) = SkeletonReach(u)

\* The skeleton has two components with vertices, and in one of them a walk
\* is ended by the limit and another vertex is reached by an edge.
C30_Witness ==
    /\ pc = "built"
    /\ \E u, v, w \in DOMAIN G.nodes :
          /\ u # v
          /\ v \in GraphReach(u)
          /\ w \notin GraphReach(u)
          /\ \E c \in {Closure(skel)} :
                \E sn \in WalksOf(c) :
                    sn[1] = G.nodes[u] /\ ~WalkEnd(c, sn[1], sn[2]).done

====
